---- MODULE Spec2Model ----
(***************************************************************************)
(* Process Scheduling Simulator (FCFS / SJF / SRTF), src/app.py.           *)
(*                                                                         *)
(* The state is the script's state in one browser session: the input table *)
(* df_input, the parsed process list, the locals of the scheduler that is  *)
(* running, and the values the three schedulers returned.  One action per  *)
(* step of the script: parse, then each scheduler's prologue, loop         *)
(* iteration and return.  The schedulers are plain functions of the list   *)
(* they are given, so a last action calls the three once more on the same  *)
(* list object.                                                            *)
(***************************************************************************)
EXTENDS Integers, Sequences, FiniteSets, TLC

VARIABLES
    df_input,        \* the table handed to parse_df_to_processes
    pc,              \* position in the script
    proc_list,       \* procs of the run block: what parse returned
    procs,           \* local of the running scheduler: the sorted copy
    time,            \* local: the cursor
    gantt,           \* local: gantt / gantt_segments
    results,         \* local: the rows of the results table
    timeline,        \* local: per-time-unit records
    idx,             \* FCFS: how many items of "for p in procs" are done
    ready,           \* SJF local
    remaining,       \* SJF local
    remaining_burst, \* SRTF local, keyed by pid
    arrival_map,     \* SRTF local, keyed by pid
    completed,       \* SRTF local, keyed by pid
    fcfs_out,        \* (fcfs_gantt, fcfs_res, fcfs_timeline) of the run block
    sjf_out,         \* (sjf_gantt, sjf_res, sjf_timeline)
    srtf_out,        \* (srtf_gantt, srtf_res, srtf_timeline)
    prev_out         \* what the previous pass of the three calls returned

vars == <<df_input, pc, proc_list, procs, time, gantt, results, timeline, idx,
          ready, remaining, remaining_burst, arrival_map, completed,
          fcfs_out, sjf_out, srtf_out, prev_out>>

locals == <<procs, time, gantt, results, timeline, idx, ready, remaining,
            remaining_burst, arrival_map, completed>>

outs == <<fcfs_out, sjf_out, srtf_out>>

-----------------------------------------------------------------------------
(* Bounds of the model.                                                    *)

\* rows of a table whose cells are all integers
MaxProcs == 3
\* largest arrival of such a table
MaxArrival == 2
\* largest sum of the bursts of such a table
MaxWork == 5
\* rows of a table with blank, fractional or non-numeric cells
MaxRawRows == 2
\* cap of the SRTF clock, reached only by a loop that does not end
MaxTime == 24

-----------------------------------------------------------------------------
(* Table cells.  A numeric cell holds halves/2, so that int() has          *)
(* something to truncate; a blank cell is NaN; a text cell is a string.    *)

Num(n) == [kind |-> "num", halves |-> 2 * n, text |-> ""]

Half(k) == [kind |-> "num", halves |-> k, text |-> ""]

NaN == [kind |-> "nan", halves |-> 0, text |-> ""]

Text(s) == [kind |-> "text", halves |-> 0, text |-> s]

\* df2.fillna(0)
fillna(c) == IF c.kind = "nan" THEN Num(0) ELSE c

\* int(x): a number is truncated toward zero, a non-numeric string raises
int(c) ==
    IF c.kind = "num"
    THEN [ok |-> TRUE,
          val |-> IF c.halves >= 0 THEN c.halves \div 2 ELSE -((-c.halves) \div 2)]
    ELSE [ok |-> FALSE, val |-> 0]

\* str(x)
str(c) ==
    IF c.kind = "text" THEN c.text
    ELSE IF c.halves % 2 = 0 THEN ToString(c.halves \div 2)
    ELSE ToString(int(c).val) \o ".5"

Process(pid, arrival, burst) ==
    [pid |-> pid, arrival |-> arrival, burst |-> burst, priority |-> 0]

-----------------------------------------------------------------------------
(* parse_df_to_processes                                                   *)

\* the pid column after "if 'pid' not in df2.columns: df2.insert(...)"
PidCell(df, i) ==
    IF "pid" \in df.cols THEN fillna(df.rows[i].pid) ELSE Text("P" \o ToString(i))

\* one pass of the body of "for _, r in df2.iterrows()": the Process, or a raise
ParseRow(df, i) ==
    LET arrival == int(fillna(df.rows[i].arrival))
        burst == int(fillna(df.rows[i].burst))
    IN  IF ~arrival.ok \/ ~burst.ok THEN [ok |-> FALSE, p |-> Process("", 0, 0)]
        ELSE IF arrival.val < 0 THEN [ok |-> FALSE, p |-> Process("", 0, 0)]
        ELSE IF burst.val <= 0 THEN [ok |-> FALSE, p |-> Process("", 0, 0)]
        ELSE [ok |-> TRUE, p |-> Process(str(PidCell(df, i)), arrival.val, burst.val)]

\* the whole call: [raised, procs]
parse_df_to_processes(df) ==
    IF df.rows = <<>> THEN [raised |-> FALSE, procs |-> <<>>]
    ELSE IF ~({"arrival", "burst"} \subseteq df.cols) THEN [raised |-> TRUE, procs |-> <<>>]
    ELSE IF \E i \in 1..Len(df.rows) : ~ParseRow(df, i).ok
         THEN [raised |-> TRUE, procs |-> <<>>]
    ELSE [raised |-> FALSE, procs |-> [i \in 1..Len(df.rows) |-> ParseRow(df, i).p]]

-----------------------------------------------------------------------------
(* Helpers for Python's lists and dicts.                                   *)

\* Python compares tuples lexicographically; a key is a tuple of integers
TupleLess(x, y) ==
    \E k \in 1..Len(x) : x[k] < y[k] /\ \A m \in 1..(k - 1) : x[m] = y[m]

\* a sort that turns items of equal key around
sorted_ties_reversed(s, key) ==
    LET n == Len(s)
        rank(i) == Cardinality({j \in 1..n :
                       TupleLess(key[j], key[i]) \/ (key[j] = key[i] /\ j > i)}) + 1
    IN  [k \in 1..n |-> s[CHOOSE i \in 1..n : rank(i) = k]]

\* sorted(s, key=...) / list.sort(key=...), key[i] being the key of s[i].
\* Python's sort is stable: items of equal key keep their order.
sorted(s, key) ==
    LET n == Len(s)
        rank(i) == Cardinality({j \in 1..n :
                       TupleLess(key[j], key[i]) \/ (key[j] = key[i] /\ j < i)}) + 1
    IN  [k \in 1..n |-> s[CHOOSE i \in 1..n : rank(i) = k]]

\* key=lambda p: p.arrival
KeyArrival(ps) == [i \in 1..Len(ps) |-> <<ps[i].arrival>>]

\* key=lambda p: (p.arrival, p.burst)
KeyArrivalBurst(ps) == [i \in 1..Len(ps) |-> <<ps[i].arrival, ps[i].burst>>]

\* key=lambda p: p.burst
KeyBurst(ps) == [i \in 1..Len(ps) |-> <<ps[i].burst>>]

\* the cursor alone, the arrival forgotten
max_first(a, b) == a

\* max(a, b)
max(a, b) == IF a >= b THEN a ELSE b

\* list.sort(): the list that was given is itself put in order
ArgumentSortedInPlace(given, built) == built

\* sorted() and list.copy() build a new list: the list they are given is
\* afterwards what it was before (given: the argument, built: the new list)
ArgumentAfter(given, built) == given

\* {p.pid: p.burst for p in procs}: a later item overwrites an earlier one
DictBurst(ps) ==
    [k \in {ps[i].pid : i \in 1..Len(ps)} |->
        ps[CHOOSE i \in 1..Len(ps) :
              ps[i].pid = k /\ \A j \in (i + 1)..Len(ps) : ps[j].pid # k].burst]

\* {p.pid: p.arrival for p in procs}
DictArrival(ps) ==
    [k \in {ps[i].pid : i \in 1..Len(ps)} |->
        ps[CHOOSE i \in 1..Len(ps) :
              ps[i].pid = k /\ \A j \in (i + 1)..Len(ps) : ps[j].pid # k].arrival]

\* [{"time": t, "running": who} for t in range(from, to)]
Units(from, to, who) ==
    [k \in 1..(IF to > from THEN to - from ELSE 0) |->
        [time |-> from + k - 1, running |-> who]]

Segment(pid, start, finish) == [pid |-> pid, start |-> start, finish |-> finish]

\* {"pid":..., "AT":..., "BT":..., "CT": ct, "TAT": tat, "WT": wt}
ResultRow(p, ct) ==
    LET tat == ct - p.arrival
        wt == tat - p.burst
    IN  [pid |-> p.pid, AT |-> p.arrival, BT |-> p.burst, CT |-> ct, TAT |-> tat, WT |-> wt]

NoOut == [returned |-> FALSE, gantt |-> <<>>, results |-> <<>>, timeline |-> <<>>]

Returned(g, r, t) == [returned |-> TRUE, gantt |-> g, results |-> r, timeline |-> t]

-----------------------------------------------------------------------------
(* The input tables.                                                       *)

Row(p, a, b) == [pid |-> p, arrival |-> a, burst |-> b]

SeqsUpTo(S, n) == UNION {[1..k -> S] : k \in 1..n}

RECURSIVE SumBurstCells(_)
SumBurstCells(rows) ==
    IF rows = <<>> THEN 0 ELSE int(rows[1].burst).val + SumBurstCells(Tail(rows))

\* no pid column, integer cells: arrival in 0..MaxArrival, bursts >= 1 that sum
\* to at most MaxWork
IntRows == {Row(NaN, Num(a), Num(b)) : a \in 0..MaxArrival, b \in 1..MaxWork}

IntTables ==
    {[cols |-> {"arrival", "burst"}, rows |-> r] :
        r \in {s \in SeqsUpTo(IntRows, MaxProcs) : SumBurstCells(s) <= MaxWork}}

\* a pid column, and cells a CSV or the data editor can hold: a blank, a
\* fraction, a negative number, a zero burst, text
RawRows ==
    {Row(p, a, b) : p \in {Text("A"), NaN},
                    a \in {Num(-1), Half(-1), Num(1), NaN},
                    b \in {Num(0), Num(1), Half(3), Text("x")}}

RawTables ==
    {[cols |-> {"pid", "arrival", "burst"}, rows |-> r] : r \in SeqsUpTo(RawRows, MaxRawRows)}

\* a required column is missing; the table with no rows
OddTables ==
    {[cols |-> c, rows |-> <<Row(Text("A"), Num(0), Num(1))>>] :
        c \in {{"pid", "arrival"}, {"pid", "burst"}, {"pid"}}}
    \cup {[cols |-> {"pid", "arrival", "burst"}, rows |-> <<>>]}

\* the default example of the sidebar
DefaultExample ==
    [cols |-> {"pid", "arrival", "burst"},
     rows |-> <<Row(Text("P1"), Num(0), Num(5)), Row(Text("P2"), Num(1), Num(3)),
                Row(Text("P3"), Num(2), Num(8)), Row(Text("P4"), Num(3), Num(6))>>]

Tables == IntTables \cup RawTables \cup OddTables \cup {DefaultExample}

-----------------------------------------------------------------------------
(* The script.                                                             *)

Init ==
    /\ df_input \in Tables
    /\ pc = "parse"
    /\ proc_list = <<>>
    /\ procs = <<>>
    /\ time = 0
    /\ gantt = <<>>
    /\ results = <<>>
    /\ timeline = <<>>
    /\ idx = 0
    /\ ready = <<>>
    /\ remaining = <<>>
    /\ remaining_burst = <<>>
    /\ arrival_map = <<>>
    /\ completed = <<>>
    /\ fcfs_out = NoOut
    /\ sjf_out = NoOut
    /\ srtf_out = NoOut
    /\ prev_out = [fcfs |-> NoOut, sjf |-> NoOut, srtf |-> NoOut]

\* "procs = parse_df_to_processes(df_input)" of the run block, with its
\* st.error / st.stop() on a raise and on an empty list
Parse ==
    /\ pc = "parse"
    /\ LET r == parse_df_to_processes(df_input)
       IN  IF r.raised THEN pc' = "error" /\ proc_list' = <<>>
           ELSE IF r.procs = <<>> THEN pc' = "empty" /\ proc_list' = <<>>
           ELSE pc' = "fcfs_call" /\ proc_list' = r.procs
    /\ UNCHANGED <<df_input, locals, outs, prev_out>>

\* ordered by arrival and then by burst
FcfsOrderByBurst(pl) == sorted(pl, KeyArrivalBurst(pl))

\* "procs = sorted(proc_list, key=lambda p: p.arrival)" of fcfs_scheduler
FcfsOrder(pl) == sorted(pl, KeyArrival(pl))

\* fcfs_scheduler up to its loop
FcfsStart ==
    /\ pc = "fcfs_call"
    /\ procs' = FcfsOrder(proc_list)
    /\ proc_list' = ArgumentAfter(proc_list, procs')
    /\ time' = 0
    /\ gantt' = <<>>
    /\ results' = <<>>
    /\ timeline' = <<>>
    /\ idx' = 0
    /\ pc' = "fcfs_loop"
    /\ UNCHANGED <<df_input, ready, remaining, remaining_burst, arrival_map, completed,
                   outs, prev_out>>

\* no idle units at all
FcfsIdleNone(t, start) == <<>>

\* the idle units begun one unit late
FcfsIdleLate(t, start) == Units(t + 1, start, "IDLE")

\* the idle units "for t in range(time, start)" appends
FcfsIdle(t, start) == Units(t, start, "IDLE")

\* one item of "for p in procs"
FcfsStep ==
    /\ pc = "fcfs_loop"
    /\ idx < Len(procs)
    /\ LET p == procs[idx + 1]
           start == max(time, p.arrival)
           finish == start + p.burst
       IN  /\ gantt' = Append(gantt, Segment(p.pid, start, finish))
           /\ timeline' = timeline \o FcfsIdle(time, start) \o Units(start, finish, p.pid)
           /\ results' = Append(results, ResultRow(p, finish))
           /\ time' = finish
    /\ idx' = idx + 1
    /\ UNCHANGED <<df_input, pc, proc_list, procs, ready, remaining, remaining_burst,
                   arrival_map, completed, outs, prev_out>>

\* "return gantt, pd.DataFrame(results), timeline"
FcfsReturn ==
    /\ pc = "fcfs_loop"
    /\ idx = Len(procs)
    /\ fcfs_out' = Returned(gantt, results, timeline)
    /\ pc' = "sjf_call"
    /\ UNCHANGED <<df_input, proc_list, locals, sjf_out, srtf_out, prev_out>>

\* "procs = sorted(proc_list, key=lambda p: (p.arrival, p.burst))"
SjfOrder(pl) == sorted(pl, KeyArrivalBurst(pl))

\* sjf_nonpreemptive_scheduler up to its loop
SjfStart ==
    /\ pc = "sjf_call"
    /\ procs' = SjfOrder(proc_list)
    /\ proc_list' = ArgumentAfter(proc_list, procs')
    /\ time' = 0
    /\ gantt' = <<>>
    /\ results' = <<>>
    /\ timeline' = <<>>
    /\ ready' = <<>>
    /\ remaining' = procs'
    /\ pc' = "sjf_loop"
    /\ UNCHANGED <<df_input, idx, remaining_burst, arrival_map, completed, outs, prev_out>>

\* the test written "<": a process that arrives now is not yet moved
RECURSIVE ArrivedStrict(_, _)
ArrivedStrict(rem, t) ==
    IF rem # <<>> /\ rem[1].arrival < t THEN 1 + ArrivedStrict(Tail(rem), t) ELSE 0

\* how many items "while remaining and remaining[0].arrival <= time" pops
RECURSIVE Arrived(_, _)
Arrived(rem, t) ==
    IF rem # <<>> /\ rem[1].arrival <= t THEN 1 + Arrived(Tail(rem), t) ELSE 0

\* the ready list left in the order of arrival
SjfReadyUnsorted(rdy) == rdy

\* the ready list sorted by burst, equal bursts turned around
SjfSortReadyTiesReversed(rdy) == sorted_ties_reversed(rdy, KeyBurst(rdy))

\* "ready.sort(key=lambda p: p.burst)"
SjfSortReady(rdy) == sorted(rdy, KeyBurst(rdy))

\* a single idle unit, however long the gap
SjfIdleOneUnit(t, next) == Units(t, t + 1, "IDLE")

\* the idle units "for t in range(time, remaining[0].arrival)" appends
SjfIdle(t, next) == Units(t, next, "IDLE")

\* one pass of "while remaining or ready"
SjfStep ==
    /\ pc = "sjf_loop"
    /\ remaining # <<>> \/ ready # <<>>
    /\ LET k == Arrived(remaining, time)
           rem1 == SubSeq(remaining, k + 1, Len(remaining))
           rdy1 == ready \o SubSeq(remaining, 1, k)
       IN  IF rdy1 = <<>>
           THEN \* idle until the next arrival, then "continue"
                /\ remaining' = rem1
                /\ ready' = rdy1
                /\ IF rem1 # <<>>
                   THEN /\ timeline' = timeline \o SjfIdle(time, rem1[1].arrival)
                        /\ time' = rem1[1].arrival
                   ELSE UNCHANGED <<timeline, time>>
                /\ UNCHANGED <<gantt, results>>
           ELSE LET srt == SjfSortReady(rdy1)
                    p == srt[1]
                    start == time
                    finish == start + p.burst
                IN  /\ remaining' = rem1
                    /\ ready' = Tail(srt)
                    /\ gantt' = Append(gantt, Segment(p.pid, start, finish))
                    /\ timeline' = timeline \o Units(start, finish, p.pid)
                    /\ results' = Append(results, ResultRow(p, finish))
                    /\ time' = finish
    /\ UNCHANGED <<df_input, pc, proc_list, procs, idx, remaining_burst, arrival_map,
                   completed, outs, prev_out>>

SjfReturn ==
    /\ pc = "sjf_loop"
    /\ remaining = <<>> /\ ready = <<>>
    /\ sjf_out' = Returned(gantt, results, timeline)
    /\ pc' = "srtf_call"
    /\ UNCHANGED <<df_input, proc_list, locals, fcfs_out, srtf_out, prev_out>>

\* "procs = sorted(proc_list, key=lambda p: p.arrival)" of srtf_scheduler
SrtfOrder(pl) == sorted(pl, KeyArrival(pl))

\* srtf_scheduler up to its loop
SrtfStart ==
    /\ pc = "srtf_call"
    /\ procs' = SrtfOrder(proc_list)
    /\ proc_list' = ArgumentAfter(proc_list, procs')
    /\ remaining_burst' = DictBurst(procs')
    /\ arrival_map' = DictArrival(procs')
    /\ completed' = <<>>
    /\ timeline' = <<>>
    /\ time' = 0
    /\ gantt' = <<>>
    /\ results' = <<>>
    /\ pc' = "srtf_loop"
    /\ UNCHANGED <<df_input, idx, ready, remaining, outs, prev_out>>

\* every process that has arrived, the completed ones too
AvailableArrived(ps, amap, done, t) ==
    SelectSeq(ps, LAMBDA p : amap[p.pid] <= t)

\* the test written "<": a process that arrives now is not yet available
AvailableStrictlyBefore(ps, amap, done, t) ==
    SelectSeq(ps, LAMBDA p : amap[p.pid] < t /\ p.pid \notin DOMAIN done)

\* "[p for p in procs if arrival_map[p.pid] <= time and p.pid not in completed]"
Available(ps, amap, done, t) ==
    SelectSeq(ps, LAMBDA p : amap[p.pid] <= t /\ p.pid \notin DOMAIN done)

\* the first available process, the sort forgotten
SrtfPickFirst(avail, rb) == avail[1]

\* the sort turns processes of equal remaining burst around
SrtfPickTiesReversed(avail, rb) ==
    sorted_ties_reversed(avail, [i \in 1..Len(avail) |-> <<rb[avail[i].pid]>>])[1]

\* the process with the longest remaining burst
SrtfPickLongest(avail, rb) ==
    sorted(avail, [i \in 1..Len(avail) |-> <<0 - rb[avail[i].pid]>>])[1]

\* "available.sort(key=lambda p: remaining_burst[p.pid]); cur = available[0]"
SrtfPick(avail, rb) ==
    sorted(avail, [i \in 1..Len(avail) |-> <<rb[avail[i].pid]>>])[1]

\* one pass of "while len(completed) < n"
SrtfStep ==
    /\ pc = "srtf_loop"
    /\ Cardinality(DOMAIN completed) < Len(procs)
    /\ time < MaxTime
    /\ LET available == Available(procs, arrival_map, completed, time)
       IN  IF available = <<>>
           THEN /\ timeline' = Append(timeline, [time |-> time, running |-> "IDLE"])
                /\ time' = time + 1
                /\ UNCHANGED <<remaining_burst, completed>>
           ELSE LET cur == SrtfPick(available, remaining_burst)
                IN  /\ timeline' = Append(timeline, [time |-> time, running |-> cur.pid])
                    /\ remaining_burst' =
                           [remaining_burst EXCEPT ![cur.pid] = remaining_burst[cur.pid] - 1]
                    /\ time' = time + 1
                    /\ completed' = IF remaining_burst'[cur.pid] = 0
                                    THEN (cur.pid :> time') @@ completed
                                    ELSE completed
    /\ UNCHANGED <<df_input, pc, proc_list, procs, gantt, results, idx, ready, remaining,
                   arrival_map, outs, prev_out>>

\* the last unit's time, the "+ 1" forgotten
LastSegEndShort(tl) == tl[Len(tl)].time

\* "seg_end = timeline[-1]['time'] + 1"
LastSegEnd(tl) == tl[Len(tl)].time + 1

\* the loop "for entry in timeline[1:]" that merges equal neighbours, from
\* entry i on: cur_pid and seg_start are the open run, segs the segments so far
RECURSIVE MergeFrom(_, _, _, _, _)
MergeFrom(tl, i, cur_pid, seg_start, segs) ==
    IF i > Len(tl)
    THEN \* last segment
         IF cur_pid # "IDLE"
         THEN Append(segs, Segment(cur_pid, seg_start, LastSegEnd(tl)))
         ELSE segs
    ELSE IF tl[i].running # cur_pid
         THEN MergeFrom(tl, i + 1, tl[i].running, tl[i].time,
                        IF cur_pid # "IDLE"
                        THEN Append(segs, Segment(cur_pid, seg_start, tl[i].time))
                        ELSE segs)
         ELSE MergeFrom(tl, i + 1, cur_pid, seg_start, segs)

\* one segment per busy unit, nothing merged
GanttSegmentsPerUnit(tl) ==
    LET busy == SelectSeq(tl, LAMBDA e : e.running # "IDLE")
    IN  [k \in 1..Len(busy) |-> Segment(busy[k].running, busy[k].time, busy[k].time + 1)]

\* "build Gantt segments from timeline by merging contiguous same pid intervals"
GanttSegments(tl) ==
    IF tl = <<>> THEN <<>> ELSE MergeFrom(tl, 2, tl[1].running, tl[1].time, <<>>)

\* the rest of srtf_scheduler: the segments, the results table, the return
SrtfReturn ==
    /\ pc = "srtf_loop"
    /\ Cardinality(DOMAIN completed) >= Len(procs)
    /\ gantt' = GanttSegments(timeline)
    /\ results' = [i \in 1..Len(procs) |-> ResultRow(procs[i], completed[procs[i].pid])]
    /\ srtf_out' = Returned(gantt', results', timeline)
    /\ pc' = "done"
    /\ UNCHANGED <<df_input, proc_list, procs, time, timeline, idx, ready, remaining,
                   remaining_burst, arrival_map, completed, fcfs_out, sjf_out, prev_out>>

\* the three calls are made once more on the same list object
CallAgain ==
    /\ pc = "done"
    /\ prev_out' = [fcfs |-> fcfs_out, sjf |-> sjf_out, srtf |-> srtf_out]
    /\ fcfs_out' = NoOut
    /\ sjf_out' = NoOut
    /\ srtf_out' = NoOut
    /\ pc' = "fcfs_call"
    /\ UNCHANGED <<df_input, proc_list, locals>>

\* the script from the table to the return of sjf_nonpreemptive_scheduler
UpToSjf ==
    \/ Parse
    \/ FcfsStart \/ FcfsStep \/ FcfsReturn
    \/ SjfStart \/ SjfStep \/ SjfReturn

Next ==
    \/ UpToSjf
    \/ SrtfStart \/ SrtfStep \/ SrtfReturn
    \/ CallAgain

Spec == Init /\ [][Next]_vars

\* the script is one thread that runs on: a step that can be taken is taken.
\* What sjf_nonpreemptive_scheduler does is settled when it returns, so the
\* fair behaviours are followed as far as that return.
FairSpec == Init /\ [][UpToSjf]_vars /\ WF_vars(UpToSjf)

-----------------------------------------------------------------------------
(* What the claims speak of.                                               *)

\* the ids of a process list are pairwise distinct
DistinctIds(pl) == \A i, j \in 1..Len(pl) : i # j => pl[i].pid # pl[j].pid

\* the values returned so far on a list with distinct ids
ReturnedOuts ==
    IF DistinctIds(proc_list)
    THEN {o \in {fcfs_out, sjf_out, srtf_out} : o.returned}
    ELSE {}

Rows(o) == {o.results[i] : i \in 1..Len(o.results)}

Entries(o) == {o.timeline[i] : i \in 1..Len(o.timeline)}

Segs(o) == {o.gantt[i] : i \in 1..Len(o.gantt)}

\* the largest completion time of a results table
MaxCT(o) == CHOOSE m \in {r.CT : r \in Rows(o)} : \A r \in Rows(o) : r.CT <= m

\* who the timeline names at time unit t
OccupantsAt(o, t) == {e.running : e \in {x \in Entries(o) : x.time = t}}

\* the segments that hold time unit t
SegsAt(o, t) == {k \in 1..Len(o.gantt) : o.gantt[k].start <= t /\ t < o.gantt[k].finish}

\* FCFS, SJF and SRTF have all returned on a list with distinct ids
AllReturned ==
    /\ DistinctIds(proc_list)
    /\ fcfs_out.returned /\ sjf_out.returned /\ srtf_out.returned

RECURSIVE SumDurations(_)
SumDurations(g) ==
    IF g = <<>> THEN 0 ELSE (g[1].finish - g[1].start) + SumDurations(Tail(g))

-----------------------------------------------------------------------------
(* C1: on a list with distinct ids, every row of the results of FCFS, SJF  *)
(* and SRTF has CT = AT + TAT, WT = TAT - BT, WT >= 0 and TAT >= BT.       *)
C1_ResultRows ==
    \A o \in ReturnedOuts : \A r \in Rows(o) :
        /\ r.CT = r.AT + r.TAT
        /\ r.WT = r.TAT - r.BT
        /\ r.WT >= 0
        /\ r.TAT >= r.BT

\* all three have returned, the CPU was idle before a late first arrival and
\* some process waited
C1_Witness ==
    /\ AllReturned
    /\ \A i \in 1..Len(proc_list) : proc_list[i].arrival > 0
    /\ \A o \in ReturnedOuts : \E r \in Rows(o) : r.WT > 0

(* C2: on a list with distinct ids, each returned timeline lists the times *)
(* 0, 1, ..., maxCT-1 in increasing order, each exactly once.              *)
C2_TimelineCovers ==
    \A o \in ReturnedOuts :
        /\ Len(o.timeline) = MaxCT(o)
        /\ \A k \in 1..Len(o.timeline) : o.timeline[k].time = k - 1

\* all three timelines hold idle units and the units of two processes
C2_Witness ==
    /\ AllReturned
    /\ \A o \in ReturnedOuts :
           /\ \E e \in Entries(o) : e.running = "IDLE"
           /\ Cardinality({e.running : e \in Entries(o)}) >= 3

(* C3: on a list with distinct ids, the returned segments are ordered by   *)
(* start and pairwise disjoint, and agree with the timeline: a unit t in   *)
(* [0, maxCT) lies in a segment of p exactly when the timeline's occupant  *)
(* of t is p and in no segment exactly when the occupant is IDLE; the      *)
(* segment durations plus the number of IDLE units sum to maxCT.           *)
C3_SegmentsAgree ==
    \A o \in ReturnedOuts :
        /\ \A i, j \in 1..Len(o.gantt) :
               i < j => /\ o.gantt[i].start <= o.gantt[j].start
                        /\ o.gantt[i].finish <= o.gantt[j].start
        /\ \A t \in 0..(MaxCT(o) - 1) :
               /\ \A i \in 1..Len(proc_list) :
                      (\E k \in SegsAt(o, t) : o.gantt[k].pid = proc_list[i].pid)
                          <=> OccupantsAt(o, t) = {proc_list[i].pid}
               /\ SegsAt(o, t) = {} <=> OccupantsAt(o, t) = {"IDLE"}
        /\ SumDurations(o.gantt) + Cardinality({e \in Entries(o) : e.running = "IDLE"})
               = MaxCT(o)

\* all three have returned, the CPU was idle at some unit, and SRTF cut a
\* process into two segments
C3_Witness ==
    /\ AllReturned
    /\ \E e \in Entries(srtf_out) : e.running = "IDLE"
    /\ Len(srtf_out.gantt) > Len(proc_list)
    /\ Len(fcfs_out.gantt) = Len(proc_list)

\* the segments of a process
SegsOf(o, pid) == {g \in Segs(o) : g.pid = pid}

\* the completion time the results table gives a process
CTOf(o, pid) == (CHOOSE r \in Rows(o) : r.pid = pid).CT

RECURSIVE SumTAT(_)
SumTAT(rs) == IF rs = <<>> THEN 0 ELSE rs[1].TAT + SumTAT(Tail(rs))

RECURSIVE SumWT(_)
SumWT(rs) == IF rs = <<>> THEN 0 ELSE rs[1].WT + SumWT(Tail(rs))

RECURSIVE SumBursts(_)
SumBursts(ps) == IF ps = <<>> THEN 0 ELSE ps[1].burst + SumBursts(Tail(ps))

(* C4: fcfs_scheduler runs the processes in arrival order, ties in input   *)
(* order, whatever their bursts: if a arrives before b, or with b and      *)
(* precedes it in the input, a's segment ends no later than b's begins.    *)
C4_FcfsOrder ==
    (fcfs_out.returned /\ DistinctIds(proc_list)) =>
        /\ \A i \in 1..Len(proc_list) : Cardinality(SegsOf(fcfs_out, proc_list[i].pid)) = 1
        /\ \A i, j \in 1..Len(proc_list) :
               (\/ proc_list[i].arrival < proc_list[j].arrival
                \/ (proc_list[i].arrival = proc_list[j].arrival /\ i < j))
               => \A a \in SegsOf(fcfs_out, proc_list[i].pid) :
                      \A b \in SegsOf(fcfs_out, proc_list[j].pid) : a.finish <= b.start

\* FCFS has returned on a list where a later row arrives first, and two rows
\* arrive together, the longer one first
C4_Witness ==
    /\ fcfs_out.returned
    /\ DistinctIds(proc_list)
    /\ \E i, j \in 1..Len(proc_list) :
           i < j /\ proc_list[i].arrival > proc_list[j].arrival
    /\ \E i, j \in 1..Len(proc_list) :
           /\ i < j
           /\ proc_list[i].arrival = proc_list[j].arrival
           /\ proc_list[i].burst > proc_list[j].burst

\* the SRTF loop has ended: "len(completed) < n" is false
SrtfLoopEnded == pc = "srtf_loop" /\ Cardinality(DOMAIN completed) >= Len(procs)

\* the times of the units a process occupies in the SRTF timeline
UnitsOf(pid) == {timeline[k].time : k \in {m \in 1..Len(timeline) : timeline[m].running = pid}}

(* C5: in srtf_scheduler remaining_burst[p] >= 0 at every step, and when   *)
(* the loop ends the non-IDLE units are as many as the bursts sum to, each *)
(* process occupies exactly burst-many units, all at times >= its arrival, *)
(* and its completion time is one plus the time of its last unit.          *)
C5_SrtfWork ==
    /\ \A k \in DOMAIN remaining_burst : remaining_burst[k] >= 0
    /\ (SrtfLoopEnded /\ DistinctIds(proc_list)) =>
           /\ Cardinality({k \in 1..Len(timeline) : timeline[k].running # "IDLE"})
                  = SumBursts(proc_list)
           /\ \A i \in 1..Len(proc_list) :
                  LET p == proc_list[i]
                  IN  /\ Cardinality({k \in 1..Len(timeline) : timeline[k].running = p.pid})
                             = p.burst
                      /\ \A t \in UnitsOf(p.pid) : t >= p.arrival
                      /\ p.pid \in DOMAIN completed
                      /\ \E t \in UnitsOf(p.pid) :
                             /\ completed[p.pid] = t + 1
                             /\ \A u \in UnitsOf(p.pid) : u <= t

\* the loop has ended after an idle unit and a preemption: some process's
\* units are not consecutive
C5_Witness ==
    /\ SrtfLoopEnded
    /\ DistinctIds(proc_list)
    /\ \E k \in 1..Len(timeline) : timeline[k].running = "IDLE"
    /\ \E i \in 1..Len(proc_list) :
           \E t, u \in UnitsOf(proc_list[i].pid) :
               t + 1 < u /\ (t + 1) \notin UnitsOf(proc_list[i].pid)

C7_DefaultExample ==
    (df_input = DefaultExample /\ AllReturned) =>
        /\ Len(fcfs_out.results) = 4 /\ Len(sjf_out.results) = 4 /\ Len(srtf_out.results) = 4
        /\ CTOf(fcfs_out, "P1") = 5 /\ CTOf(fcfs_out, "P2") = 8
        /\ CTOf(fcfs_out, "P3") = 16 /\ CTOf(fcfs_out, "P4") = 22
        /\ SumTAT(fcfs_out.results) = 45 /\ SumWT(fcfs_out.results) = 23
        /\ 100 * SumTAT(fcfs_out.results) = 1125 * Len(fcfs_out.results)
        /\ 100 * SumWT(fcfs_out.results) = 575 * Len(fcfs_out.results)
        /\ CTOf(sjf_out, "P1") = 5 /\ CTOf(sjf_out, "P2") = 8
        /\ CTOf(sjf_out, "P4") = 14 /\ CTOf(sjf_out, "P3") = 22
        /\ SumTAT(sjf_out.results) = 43 /\ SumWT(sjf_out.results) = 21
        /\ 100 * SumTAT(sjf_out.results) = 1075 * Len(sjf_out.results)
        /\ 100 * SumWT(sjf_out.results) = 525 * Len(sjf_out.results)
        /\ CTOf(srtf_out, "P2") = 4 /\ CTOf(srtf_out, "P1") = 8
        /\ CTOf(srtf_out, "P4") = 14 /\ CTOf(srtf_out, "P3") = 22
        /\ SumTAT(srtf_out.results) = 42 /\ SumWT(srtf_out.results) = 20
        /\ 100 * SumTAT(srtf_out.results) = 1050 * Len(srtf_out.results)
        /\ 100 * SumWT(srtf_out.results) = 500 * Len(srtf_out.results)

\* the three schedulers have returned on the default example
C7_Witness ==
    /\ df_input = DefaultExample
    /\ AllReturned
    /\ {r.pid : r \in Rows(srtf_out)} = {"P1", "P2", "P3", "P4"}

(* C8: when a and b have the same arrival and the same burst and a         *)
(* precedes b in the input, a completes strictly before b under FCFS, SJF  *)
(* and SRTF, whatever the other processes are.                             *)
C8_TwinsInInputOrder ==
    \A o \in ReturnedOuts : \A i, j \in 1..Len(proc_list) :
        (/\ i < j
         /\ proc_list[i].arrival = proc_list[j].arrival
         /\ proc_list[i].burst = proc_list[j].burst)
        => /\ \E r \in Rows(o) : r.pid = proc_list[i].pid
           /\ \E r \in Rows(o) : r.pid = proc_list[j].pid
           /\ CTOf(o, proc_list[i].pid) < CTOf(o, proc_list[j].pid)

\* all three have returned on two twins of burst 2 and a third, shorter
\* process that arrives while the first twin runs
C8_Witness ==
    /\ AllReturned
    /\ Len(proc_list) = 3
    /\ \E i, j, k \in 1..Len(proc_list) :
           /\ i < j
           /\ proc_list[i].arrival = proc_list[j].arrival
           /\ proc_list[i].burst = proc_list[j].burst
           /\ proc_list[i].burst >= 2
           /\ proc_list[k].arrival > proc_list[i].arrival
           /\ proc_list[k].burst < proc_list[i].burst

\* parse_df_to_processes has returned a list to the run block
Parsed == pc \notin {"parse", "error", "empty"}

(* C9: every list parse_df_to_processes returns is well-formed: its ids    *)
(* are pairwise distinct and non-empty, every arrival is an integer >= 0   *)
(* and every burst an integer > 0.                                         *)
C9_ParsedWellFormed ==
    Parsed =>
        /\ DistinctIds(proc_list)
        /\ \A i \in 1..Len(proc_list) :
               /\ proc_list[i].pid # ""
               /\ proc_list[i].arrival \in Nat
               /\ proc_list[i].burst \in Nat \ {0}

\* a cell holds a negative number
NegativeCell(c) == c.kind = "num" /\ c.halves < 0

\* a cell holds a number that is zero or less
NonPositiveCell(c) == c.kind = "num" /\ c.halves <= 0

\* a row with a text id (or no pid column), an integer arrival >= 0 and an
\* integer burst > 0
ValidRow(df, i) ==
    LET r == df.rows[i]
    IN  /\ "pid" \in df.cols => r.pid.kind = "text"
        /\ r.arrival.kind = "num" /\ r.arrival.halves >= 0 /\ r.arrival.halves % 2 = 0
        /\ r.burst.kind = "num" /\ r.burst.halves > 0 /\ r.burst.halves % 2 = 0

(* C10: parse_df_to_processes is all-or-nothing: on a non-empty table, a   *)
(* missing arrival or burst column, a negative arrival or a non-positive   *)
(* burst in any row ends the call in an error with no list returned; when  *)
(* every row is valid the list has one process per row, in row order, with *)
(* the row's id, arrival and burst.                                        *)
C10_AllOrNothing ==
    (pc # "parse" /\ df_input.rows # <<>>) =>
        /\ (\/ ~({"arrival", "burst"} \subseteq df_input.cols)
            \/ \E i \in 1..Len(df_input.rows) :
                   \/ NegativeCell(df_input.rows[i].arrival)
                   \/ NonPositiveCell(df_input.rows[i].burst))
           => (pc = "error" /\ proc_list = <<>>)
        /\ (/\ {"arrival", "burst"} \subseteq df_input.cols
            /\ \A i \in 1..Len(df_input.rows) : ValidRow(df_input, i))
           => /\ Parsed
              /\ Len(proc_list) = Len(df_input.rows)
              /\ \A i \in 1..Len(proc_list) :
                     /\ 2 * proc_list[i].arrival = df_input.rows[i].arrival.halves
                     /\ 2 * proc_list[i].burst = df_input.rows[i].burst.halves
                     /\ proc_list[i].pid =
                            IF "pid" \in df_input.cols
                            THEN df_input.rows[i].pid.text
                            ELSE "P" \o ToString(i)

\* the largest arrival of a process list
LargestArrival(pl) ==
    CHOOSE a \in {pl[i].arrival : i \in 1..Len(pl)} :
        \A i \in 1..Len(pl) : pl[i].arrival <= a

\* "while len(completed) < n" of srtf_scheduler is still true
SrtfLoopRuns == pc = "srtf_loop" /\ Cardinality(DOMAIN completed) < Len(procs)

(* C11: srtf_scheduler terminates on every non-empty list that             *)
(* parse_df_to_processes can return: its loop ends, every process          *)
(* completed, after at most (largest arrival + sum of the bursts) time     *)
(* units, so while the loop still runs the clock is below that number.     *)
C11_SrtfTerminates ==
    /\ SrtfLoopRuns => time < LargestArrival(proc_list) + SumBursts(proc_list)
    /\ SrtfLoopEnded => \A i \in 1..Len(proc_list) : proc_list[i].pid \in DOMAIN completed

\* the start of the segment SJF gave the i-th process of the input
SjfStartOf(i) == (CHOOSE g \in Segs(sjf_out) : g.pid = proc_list[i].pid).start

\* the processes SJF could start at time T: arrived and not yet run
SjfCandidates(T) ==
    {i \in 1..Len(proc_list) : proc_list[i].arrival <= T /\ SjfStartOf(i) >= T}

(* C12: in sjf_nonpreemptive_scheduler a process started at time T has,    *)
(* among the processes with arrival <= T that have not yet run, the        *)
(* minimum burst; among those of minimum burst the earliest arrival; and   *)
(* among those also equal in arrival the earliest place in the input.      *)
C12_SjfChoice ==
    (sjf_out.returned /\ DistinctIds(proc_list)) =>
        /\ \A i \in 1..Len(proc_list) : Cardinality(SegsOf(sjf_out, proc_list[i].pid)) = 1
        /\ \A p \in 1..Len(proc_list) : \A c \in SjfCandidates(SjfStartOf(p)) :
               /\ p \in SjfCandidates(SjfStartOf(p))
               /\ proc_list[p].burst <= proc_list[c].burst
               /\ proc_list[c].burst = proc_list[p].burst
                      => proc_list[p].arrival <= proc_list[c].arrival
               /\ (/\ proc_list[c].burst = proc_list[p].burst
                   /\ proc_list[c].arrival = proc_list[p].arrival) => p <= c

\* SJF has returned, and at one start it took the shorter of two waiting
\* processes although the other had arrived earlier, and at one start it had
\* two waiting processes of equal burst
C12_Witness ==
    /\ sjf_out.returned
    /\ DistinctIds(proc_list)
    /\ \E p \in 1..Len(proc_list) : \E c \in SjfCandidates(SjfStartOf(p)) :
           proc_list[c].arrival < proc_list[p].arrival
    /\ \E p \in 1..Len(proc_list) : \E c \in SjfCandidates(SjfStartOf(p)) :
           c # p /\ proc_list[c].burst = proc_list[p].burst

\* who the timeline SRTF returned names at time unit t
SrtfOccupant(t) == srtf_out.timeline[t + 1].running

\* the remaining burst of the i-th process of the input before unit t
SrtfRemainingAt(i, t) ==
    proc_list[i].burst
        - Cardinality({k \in 1..Len(srtf_out.timeline) :
              /\ srtf_out.timeline[k].running = proc_list[i].pid
              /\ srtf_out.timeline[k].time < t})

\* the processes that have arrived and are not complete at unit t
SrtfAvailableAt(t) ==
    {i \in 1..Len(proc_list) : proc_list[i].arrival <= t /\ SrtfRemainingAt(i, t) > 0}

(* C13: in srtf_scheduler, at every unit t at which some process has       *)
(* arrived and is not complete, the occupant of t has, among those         *)
(* processes, the minimum remaining burst at t; among those of minimum     *)
(* remaining burst the earliest arrival; and among those also equal in     *)
(* arrival the earliest place in the input.                                *)
C13_SrtfChoice ==
    (srtf_out.returned /\ DistinctIds(proc_list)) =>
        \A t \in 0..(Len(srtf_out.timeline) - 1) :
            SrtfAvailableAt(t) # {} =>
                \E p \in SrtfAvailableAt(t) :
                    /\ SrtfOccupant(t) = proc_list[p].pid
                    /\ \A c \in SrtfAvailableAt(t) :
                           /\ SrtfRemainingAt(p, t) <= SrtfRemainingAt(c, t)
                           /\ SrtfRemainingAt(c, t) = SrtfRemainingAt(p, t)
                                  => proc_list[p].arrival <= proc_list[c].arrival
                           /\ (/\ SrtfRemainingAt(c, t) = SrtfRemainingAt(p, t)
                               /\ proc_list[c].arrival = proc_list[p].arrival) => p <= c

\* SRTF has returned; at one unit the occupant had arrived later than another
\* available process, and at one unit two available processes were equal in
\* remaining burst
C13_Witness ==
    /\ srtf_out.returned
    /\ DistinctIds(proc_list)
    /\ \E t \in 0..(Len(srtf_out.timeline) - 1) : \E p, c \in SrtfAvailableAt(t) :
           /\ SrtfOccupant(t) = proc_list[p].pid
           /\ proc_list[c].arrival < proc_list[p].arrival
    /\ \E t \in 0..(Len(srtf_out.timeline) - 1) : \E p, c \in SrtfAvailableAt(t) :
           /\ p # c
           /\ SrtfOccupant(t) = proc_list[p].pid
           /\ SrtfRemainingAt(c, t) = SrtfRemainingAt(p, t)

(* C14: in srtf_scheduler the incumbent keeps the CPU on an exact tie: if  *)
(* x occupies unit t-1, is unfinished at t and no available process at t   *)
(* has a strictly smaller remaining burst, x occupies t; so x is preempted *)
(* at t only when a process that arrives at t has a burst strictly smaller *)
(* than x's remaining burst.                                               *)
C14_IncumbentKeeps ==
    (srtf_out.returned /\ DistinctIds(proc_list)) =>
        \A t \in 1..(Len(srtf_out.timeline) - 1) : \A x \in SrtfAvailableAt(t) :
            SrtfOccupant(t - 1) = proc_list[x].pid =>
                /\ (\A c \in SrtfAvailableAt(t) :
                        SrtfRemainingAt(c, t) >= SrtfRemainingAt(x, t))
                   => SrtfOccupant(t) = proc_list[x].pid
                /\ SrtfOccupant(t) # proc_list[x].pid
                   => \E c \in 1..Len(proc_list) :
                          /\ proc_list[c].arrival = t
                          /\ proc_list[c].burst < SrtfRemainingAt(x, t)

\* SRTF has returned; at some unit a process arrived whose burst equals the
\* remaining burst of the unfinished incumbent, and the incumbent went on
C14_Witness ==
    /\ srtf_out.returned
    /\ DistinctIds(proc_list)
    /\ \E t \in 1..(Len(srtf_out.timeline) - 1) : \E x, c \in SrtfAvailableAt(t) :
           /\ x # c
           /\ SrtfOccupant(t - 1) = proc_list[x].pid
           /\ proc_list[c].arrival = t
           /\ proc_list[c].burst = SrtfRemainingAt(x, t)
           /\ SrtfOccupant(t) = proc_list[x].pid

(* C15: the segments srtf_scheduler derives from its timeline are the     *)
(* maximal runs of equal non-IDLE occupants: a segment [start, finish) of  *)
(* p has occupant p at each of its units, another occupant just before     *)
(* start and at finish (if such units exist); every non-IDLE unit lies in  *)
(* exactly one segment and no segment holds an IDLE unit.                  *)
C15_SegmentsAreRuns ==
    srtf_out.returned =>
        /\ \A k \in 1..Len(srtf_out.gantt) :
               LET g == srtf_out.gantt[k]
               IN  /\ g.start < g.finish
                   /\ g.finish <= Len(srtf_out.timeline)
                   /\ \A t \in g.start..(g.finish - 1) : SrtfOccupant(t) = g.pid
                   /\ g.start > 0 => SrtfOccupant(g.start - 1) # g.pid
                   /\ g.finish < Len(srtf_out.timeline) => SrtfOccupant(g.finish) # g.pid
        /\ \A t \in 0..(Len(srtf_out.timeline) - 1) :
               IF SrtfOccupant(t) = "IDLE"
               THEN SegsAt(srtf_out, t) = {}
               ELSE Cardinality(SegsAt(srtf_out, t)) = 1

\* SRTF has returned a timeline with an idle unit, a process cut into two
\* segments and a segment of two units or more
C15_Witness ==
    /\ srtf_out.returned
    /\ \E t \in 0..(Len(srtf_out.timeline) - 1) : SrtfOccupant(t) = "IDLE"
    /\ \E i \in 1..Len(proc_list) : Cardinality(SegsOf(srtf_out, proc_list[i].pid)) >= 2
    /\ \E g \in Segs(srtf_out) : g.finish - g.start >= 2

\* the processes in the two queues of SJF
SjfQueued == Len(remaining) + Len(ready)

\* "while remaining or ready" of sjf_nonpreemptive_scheduler has ended
SjfLoopEnded == pc = "sjf_loop" /\ remaining = <<>> /\ ready = <<>>

(* C16: the SJF loop terminates on every non-empty valid list: each pass   *)
(* of "while remaining or ready" takes one process out of the two queues   *)
(* or moves time strictly forward to the next arrival; the loop ends, both *)
(* queues empty, every process run once in a single segment                *)
(* [start, start + burst) with start >= its arrival.                       *)
C16_SjfTerminates ==
    /\ [][SjfStep =>
             \/ SjfQueued' = SjfQueued - 1
             \/ /\ SjfQueued' = SjfQueued
                /\ time' > time
                /\ remaining' # <<>>
                /\ time' = remaining'[1].arrival]_vars
    /\ []((SjfLoopEnded /\ DistinctIds(proc_list)) =>
             /\ Len(gantt) = Len(proc_list)
             /\ \A i \in 1..Len(proc_list) :
                    \E k \in 1..Len(gantt) :
                        /\ gantt[k].pid = proc_list[i].pid
                        /\ gantt[k].start >= proc_list[i].arrival
                        /\ gantt[k].finish = gantt[k].start + proc_list[i].burst
                        /\ \A t \in gantt[k].start..(gantt[k].finish - 1) :
                               timeline[t + 1].running = proc_list[i].pid)
    /\ (pc = "sjf_loop") ~> SjfLoopEnded

\* the loop has ended after a pass that only moved time to the next arrival
\* and a pass that ran a process while another one waited
C16_Witness ==
    /\ SjfLoopEnded
    /\ DistinctIds(proc_list)
    /\ \E k \in 1..Len(timeline) : timeline[k].running = "IDLE"
    /\ \E i \in 1..Len(proc_list) : \E k \in 1..Len(gantt) :
           gantt[k].pid = proc_list[i].pid /\ gantt[k].start > proc_list[i].arrival

\* FCFS is about to run a process that has not arrived at the cursor
FcfsGap == pc = "fcfs_loop" /\ idx < Len(procs) /\ time < procs[idx + 1].arrival

(* C17 as claimed: in fcfs_scheduler, whenever the cursor is before the    *)
(* arrival of the next process, an idle segment [time, arrivalTime) is     *)
(* emitted into the segment output before that process's segment, and      *)
(* time is advanced to arrivalTime.                                        *)
C17_IdleSegmentEmitted ==
    [][(FcfsGap /\ FcfsStep) =>
          \E k \in 1..(Len(gantt') - 1) :
              /\ gantt'[k].pid = "IDLE"
              /\ gantt'[k].start = time
              /\ gantt'[k].finish = procs[idx + 1].arrival
              /\ gantt'[k + 1].pid = procs[idx + 1].pid
              /\ gantt'[k + 1].start = procs[idx + 1].arrival]_vars

(* C17 as amended: in fcfs_scheduler, whenever the cursor is before the    *)
(* arrival of the next process, an IDLE unit for every t in                *)
(* [time, arrivalTime) is appended to the timeline before that process's   *)
(* units; the segment output gets the process's segment only, which starts *)
(* at arrivalTime, and the cursor ends at arrivalTime + burst.             *)
C17_IdleUnitsAppended ==
    [][(FcfsGap /\ FcfsStep) =>
          LET p == procs[idx + 1]
              n == Len(timeline)
          IN  /\ gantt' = Append(gantt, Segment(p.pid, p.arrival, p.arrival + p.burst))
              /\ Len(timeline') = n + (p.arrival - time) + p.burst
              /\ SubSeq(timeline', 1, n) = timeline
              /\ \A t \in time..(p.arrival - 1) :
                     timeline'[n + 1 + (t - time)] = [time |-> t, running |-> "IDLE"]
              /\ \A t \in p.arrival..(p.arrival + p.burst - 1) :
                     timeline'[n + 1 + (t - time)] = [time |-> t, running |-> p.pid]
              /\ time' = p.arrival + p.burst]_vars

\* FCFS has just run a process that arrived after the one before it had
\* finished: the unit before its segment is an idle one
C17_Witness ==
    /\ pc = "fcfs_loop"
    /\ idx >= 2
    /\ gantt[idx].start > gantt[idx - 1].finish
    /\ gantt[idx].start = procs[idx].arrival
    /\ timeline[gantt[idx].start].running = "IDLE"

(* C18: the three schedulers are work-conserving: in the timelines of      *)
(* FCFS, SJF and SRTF a unit t is IDLE only if no process with arrival     *)
(* <= t is incomplete at t, and a non-IDLE occupant of t has arrival <= t. *)
C18_WorkConserving ==
    \A o \in ReturnedOuts : \A e \in Entries(o) :
        IF e.running = "IDLE"
        THEN \A i \in 1..Len(proc_list) :
                 ~(proc_list[i].arrival <= e.time /\ CTOf(o, proc_list[i].pid) > e.time)
        ELSE \E i \in 1..Len(proc_list) :
                 proc_list[i].pid = e.running /\ proc_list[i].arrival <= e.time

\* all three have returned; the CPU was idle between a completion and a
\* later arrival, and a process ran later than it arrived
C18_Witness ==
    /\ AllReturned
    /\ \A o \in ReturnedOuts :
           /\ \E e \in Entries(o) : e.running = "IDLE" /\ e.time > 0
           /\ \E r \in Rows(o) : r.WT > 0

(* C19: on the same list FCFS, SJF and SRTF return timelines of the same   *)
(* length with IDLE at the same units, so the largest completion time is   *)
(* the same under all three.                                               *)
C19_SameIdleUnits ==
    AllReturned =>
        /\ Len(fcfs_out.timeline) = Len(sjf_out.timeline)
        /\ Len(sjf_out.timeline) = Len(srtf_out.timeline)
        /\ \A k \in 1..Len(fcfs_out.timeline) :
               /\ fcfs_out.timeline[k].running = "IDLE" <=> sjf_out.timeline[k].running = "IDLE"
               /\ sjf_out.timeline[k].running = "IDLE" <=> srtf_out.timeline[k].running = "IDLE"
        /\ MaxCT(fcfs_out) = MaxCT(sjf_out)
        /\ MaxCT(sjf_out) = MaxCT(srtf_out)

\* all three have returned timelines with a gap of two idle units, and the
\* three ran the processes differently
C19_Witness ==
    /\ AllReturned
    /\ \E k \in 1..(Len(sjf_out.timeline) - 1) :
           sjf_out.timeline[k].running = "IDLE" /\ sjf_out.timeline[k + 1].running = "IDLE"
    /\ fcfs_out.timeline # sjf_out.timeline
    /\ fcfs_out.timeline # srtf_out.timeline

(* C20: on the same list the turnaround times of SRTF sum to no more than  *)
(* those of SJF and those of FCFS, and so do the waiting times.            *)
C20_SrtfLeastTotal ==
    AllReturned =>
        /\ SumTAT(srtf_out.results) <= SumTAT(sjf_out.results)
        /\ SumTAT(srtf_out.results) <= SumTAT(fcfs_out.results)
        /\ SumWT(srtf_out.results) <= SumWT(sjf_out.results)
        /\ SumWT(srtf_out.results) <= SumWT(fcfs_out.results)

\* all three have returned and SRTF's total is strictly below SJF's, which
\* is strictly below FCFS's
C20_Witness ==
    /\ AllReturned
    /\ SumTAT(srtf_out.results) < SumTAT(sjf_out.results)
    /\ SumTAT(sjf_out.results) < SumTAT(fcfs_out.results)

====
